---- MODULE Spec2Model ----
(***************************************************************************)
(* A model of jsonl-tweet-hashtags.py: for every file named on the command *)
(* line, scan its lines, count the hashtags of the tweets inside the date  *)
(* range, then log a summary and the table of the most frequent hashtags.  *)
(*                                                                         *)
(* A line is modelled by what json.loads makes of it: blank (empty after   *)
(* strip), malformed (json.loads raises) or an object with the keys the    *)
(* program reads.  A string is a sequence of one-character strings, and    *)
(* created_at is the sequence of its space-separated tokens.  A datetime   *)
(* is the number of seconds since 2024-01-01 00:00:00.                     *)
(***************************************************************************)
EXTENDS Integers, Sequences, FiniteSets, TLC

VARIABLES
    top,            \* options.top
    start_date,     \* start_date (line 41-44): None or a datetime
    end_date,       \* end_date (line 45-48): None or a datetime
    nargs,          \* len(args), at least 1 (line 37)
    file_index,     \* number of paths of args the loop of line 50 has taken
    pc,             \* "next" | "scan" | "reported" | "done"
    num_tweets,     \* line 55
    num_failed,     \* line 55
    line_number,    \* line 55
    has_hashtags,   \* line 55
    counts,         \* line 56: sequence of <<key, count>> in insertion order
    progress,       \* number of "Processed %d lines" notices of this file
    summary,        \* the "Found X/Y ..." and "Top N" values logged, or <<>>
    table,          \* the rows added to the PrettyTable, or <<>>
    read,           \* history: the lines of the current file read so far
    processed_entries \* history: hashtag entries of the records counted in num_tweets

vars == <<top, start_date, end_date, nargs, file_index, pc, num_tweets, num_failed,
          line_number, has_hashtags, counts, progress, summary, table, read,
          processed_entries>>

\* ------------------------------------------------------------------ bounds

MaxLines == 2
MaxFiles == 2
MaxTop == 1
RunLen == 49999

\* ------------------------------------------------------------------ values

ProgressEvery == 50000

None == -1

ValueError == -2

Min(a, b) == IF a < b THEN a ELSE b

\* ------------------------------------------------------------------ strings

Lower(c) == CASE c = "A" -> "a" [] c = "B" -> "b" [] OTHER -> c

\* str.lower()
lower(s) == [i \in 1..Len(s) |-> Lower(s[i])]

RECURSIVE lstrip(_)
lstrip(s) == IF s # <<>> /\ Head(s) = " " THEN lstrip(Tail(s)) ELSE s

RECURSIVE rstrip(_)
rstrip(s) == IF s # <<>> /\ s[Len(s)] = " " THEN rstrip(SubSeq(s, 1, Len(s) - 1)) ELSE s

\* str.strip()
strip(s) == rstrip(lstrip(s))

\* ------------------------------------------------------------------ dates

WeekdayToken == {"Mon", "Tue", "Wed"}

DayToken == ("01" :> 1) @@ ("02" :> 2) @@ ("03" :> 3)

TimeToken == ("00:00:00" :> 0) @@ ("12:00:00" :> 43200) @@ ("23:59:59" :> 86399)

\* datetime.strptime(smodified, '%a %b %d %H:%M:%S %Y') on the token list
strptime_twitter(parts) ==
    IF /\ Len(parts) = 5
       /\ parts[1] \in WeekdayToken
       /\ parts[2] = "Jan"
       /\ parts[3] \in DOMAIN DayToken
       /\ parts[4] \in DOMAIN TimeToken
       /\ parts[5] = "2024"
    THEN (DayToken[parts[3]] - 1) * 86400 + TimeToken[parts[4]]
    ELSE ValueError

\* parse_twitter_date(s) with ignore_time_zones = True; parts is s.split(" ")
parse_twitter_date(parts) ==
    LET smodified == SubSeq(parts, 1, Min(4, Len(parts))) \o <<parts[Len(parts)]>>
    IN  strptime_twitter(smodified)

OptionDate == ("2024-01-02" :> 86400)

\* lines 41-48: datetime.strptime(option, '%Y-%m-%d'), or None for ""
parse_option_date(s) == IF s = "" THEN None ELSE OptionDate[s]

\* ------------------------------------------------------------------ lines

Tag(text) == [keys |-> {"text"}, text |-> text]

\* a hashtag entry without "text"
NoTextTag == [keys |-> {}, text |-> <<>>]

Tweet(created_at, hashtags) ==
    [json |-> "object", keys |-> {"created_at", "entities"}, created_at |-> created_at,
     entities |-> [keys |-> {"hashtags"}, hashtags |-> hashtags]]

BaseDate == <<"Tue", "Jan", "02", "00:00:00", "+0000", "2024">>

BlankLine ==
    [json |-> "blank", keys |-> {}, created_at |-> <<>>,
     entities |-> [keys |-> {}, hashtags |-> <<>>]]

MalformedLine == [BlankLine EXCEPT !.json = "malformed"]

\* a tweet without "entities"
PlainTweet ==
    [Tweet(BaseDate, <<>>) EXCEPT !.keys = {"created_at"}, !.entities.keys = {}]

DateLines ==
    { Tweet(d, <<Tag(<<"a">>)>>) :
        d \in { <<"Mon", "Jan", "01", "23:59:59", "+0000", "2024">>,
                <<"Tue", "Jan", "02", "12:00:00", "+0000", "2024">>,
                <<"Tue", "Jan", "02", "23:59:59", "2024">>,
                <<"Wed", "Jan", "03", "00:00:00", "+0900", "2024">>,
                <<"garbage">> } }

TagLists ==
    { <<>>,
      <<Tag(<<"A">>)>>,
      <<Tag(<<" ", "a">>)>>,
      <<Tag(<<"a">>), Tag(<<"B", " ">>)>>,
      <<Tag(<<"b">>), Tag(<<"b">>)>>,
      <<Tag(<<"A", "b">>)>>,
      <<Tag(<<"a">>), NoTextTag>>,
      <<NoTextTag>> }

Lines ==
    {BlankLine, MalformedLine, PlainTweet,
     [Tweet(BaseDate, <<Tag(<<"a">>)>>) EXCEPT !.keys = {"entities"}],
     [Tweet(BaseDate, <<>>) EXCEPT !.entities.keys = {}]}
    \cup DateLines
    \cup { Tweet(BaseDate, tags) : tags \in TagLists }

\* ------------------------------------------------------------------ the loop body

RECURSIVE IndexOf(_, _, _)
IndexOf(cs, key, i) ==
    IF i > Len(cs) THEN 0 ELSE IF cs[i][1] = key THEN i ELSE IndexOf(cs, key, i + 1)

\* counts[key], a defaultdict(int) read
CountOf(cs, key) == LET i == IndexOf(cs, key, 1) IN IF i = 0 THEN 0 ELSE cs[i][2]

\* counts[key] += 1 (line 75); a new key is inserted last
Increment(cs, key) ==
    LET i == IndexOf(cs, key, 1)
    IN  IF i = 0 THEN Append(cs, <<key, 1>>) ELSE [cs EXCEPT ![i] = <<key, cs[i][2] + 1>>]

\* line 74 without .lower()
HashtagKeyCaseSensitive(text) == <<"#">> \o strip(text)

\* line 74: "#" + tag["text"].lower().strip()
HashtagKey(text) == <<"#">> \o strip(lower(text))

\* lines 73-75: the loop over the hashtag entries; tag["text"] raises KeyError
\* on an entry without "text", and the counts added before it stay
RECURSIVE CountTags(_, _, _)
CountTags(cs, tags, i) ==
    IF i > Len(tags) THEN [counts |-> cs, raised |-> FALSE]
    ELSE IF "text" \notin tags[i].keys THEN [counts |-> cs, raised |-> TRUE]
    ELSE CountTags(Increment(cs, HashtagKey(tags[i].text)), tags, i + 1)

\* line 67 filtering only when both dates are given
OutOfRangeBothGiven(sdate) ==
    /\ start_date # None /\ end_date # None
    /\ (sdate < start_date \/ sdate > end_date)

\* line 67: (start_date and sdate < start_date) or (end_date and sdate > end_date)
OutOfRange(sdate) ==
    \/ (start_date # None /\ sdate < start_date)
    \/ (end_date # None /\ sdate > end_date)

\* lines 79-81: the except clause
Except(st) == [st EXCEPT !.num_failed = @ + 1]

\* lines 70-78, for a tweet inside the date range
Count(st, l) ==
    LET found == /\ "entities" \in l.keys
                 /\ "hashtags" \in l.entities.keys
                 /\ Len(l.entities.hashtags) > 0
        loop == CountTags(st.counts, l.entities.hashtags, 1)
    IN  IF found /\ loop.raised
        THEN Except([st EXCEPT !.has_hashtags = @ + 1, !.counts = loop.counts])
        ELSE LET st2 == IF found
                        THEN [st EXCEPT !.has_hashtags = @ + 1, !.counts = loop.counts]
                        ELSE st
                 st3 == [st2 EXCEPT !.num_tweets = @ + 1]
             IN  IF st3.line_number % ProgressEvery = 0
                 THEN [st3 EXCEPT !.progress = @ + 1]
                 ELSE st3

\* lines 58-81: one iteration of the loop over the lines of the file
Body(st, l) ==
    IF l.json = "blank" THEN st
    ELSE LET st1 == [st EXCEPT !.line_number = @ + 1]
         IN  IF l.json = "malformed" THEN Except(st1)
             ELSE IF "created_at" \notin l.keys THEN Except(st1)
             ELSE LET sdate == parse_twitter_date(l.created_at)
                  IN  IF sdate = ValueError THEN Except(st1)
                      ELSE IF OutOfRange(sdate) THEN st1
                      ELSE Count(st1, l)

\* the counts after n iterations that each add what one iteration adds
Scale(cs0, cs1, n) ==
    [i \in 1..Len(cs1) |->
        <<cs1[i][1], CountOf(cs0, cs1[i][1]) + n * (cs1[i][2] - CountOf(cs0, cs1[i][1]))>>]

\* lines 58-81 iterated over n consecutive copies of the line l
Repeat(st, l, n) ==
    LET one == Body(st, l)
    IN  [num_tweets |-> st.num_tweets + n * (one.num_tweets - st.num_tweets),
         num_failed |-> st.num_failed + n * (one.num_failed - st.num_failed),
         line_number |-> st.line_number + n * (one.line_number - st.line_number),
         has_hashtags |-> st.has_hashtags + n * (one.has_hashtags - st.has_hashtags),
         counts |-> Scale(st.counts, one.counts, n),
         progress |-> st.progress +
            IF one.num_tweets > st.num_tweets
            THEN ((st.line_number + n) \div ProgressEvery) - (st.line_number \div ProgressEvery)
            ELSE 0]

\* ------------------------------------------------------------------ reporting

RECURSIVE InsertDesc(_, _)
InsertDesc(sorted, pair) ==
    IF sorted = <<>> THEN <<pair>>
    ELSE IF Head(sorted)[2] >= pair[2] THEN <<Head(sorted)>> \o InsertDesc(Tail(sorted), pair)
    ELSE <<pair>> \o sorted

\* line 86: sorted(counts.items(), key=itemgetter(1), reverse=True), a stable sort
RECURSIVE SortDesc(_, _)
SortDesc(cs, i) == IF i = 0 THEN <<>> ELSE InsertDesc(SortDesc(cs, i - 1), cs[i])

\* lines 91-94 breaking at i >= options.top
TableRowsStrict(sx, t) == SubSeq(sx, 1, Min(Len(sx), t))

\* lines 91-94: the rows with index i <= options.top
TableRows(sx, t) == SubSeq(sx, 1, Min(Len(sx), t + 1))

\* lines 83 and 87: the values of the two log messages
Summary(st, t) == <<st.has_hashtags, st.num_tweets, Len(st.counts), Min(Len(st.counts), t)>>

\* ------------------------------------------------------------------ the program

Locals ==
    [num_tweets |-> num_tweets, num_failed |-> num_failed, line_number |-> line_number,
     has_hashtags |-> has_hashtags, counts |-> counts, progress |-> progress]

Fresh ==
    [num_tweets |-> 0, num_failed |-> 0, line_number |-> 0,
     has_hashtags |-> 0, counts |-> <<>>, progress |-> 0]

Assign(st) ==
    /\ num_tweets' = st.num_tweets
    /\ num_failed' = st.num_failed
    /\ line_number' = st.line_number
    /\ has_hashtags' = st.has_hashtags
    /\ counts' = st.counts
    /\ progress' = st.progress

\* the entries of the records of n copies of l that Body counted in num_tweets
EntriesCounted(st, l, n) ==
    IF Body(st, l).num_tweets > st.num_tweets
    THEN n * (IF "entities" \in l.keys /\ "hashtags" \in l.entities.keys
              THEN Len(l.entities.hashtags) ELSE 0)
    ELSE 0

\* lines 32-48: the options are parsed, args holds at least one path
Init ==
    /\ top \in 0..MaxTop
    /\ start_date \in {parse_option_date(s) : s \in {""} \cup DOMAIN OptionDate}
    /\ end_date \in {parse_option_date(s) : s \in {""} \cup DOMAIN OptionDate}
    /\ nargs \in 1..MaxFiles
    /\ file_index = 0
    /\ pc = "next"
    /\ num_tweets = 0 /\ num_failed = 0 /\ line_number = 0 /\ has_hashtags = 0
    /\ counts = <<>> /\ progress = 0
    /\ summary = <<>> /\ table = <<>> /\ read = <<>>
    /\ processed_entries = 0

\* lines 50-56 with counts created once, before the loop over args
BeginFileKeepCounts ==
    /\ pc \in {"next", "reported"}
    /\ file_index < nargs
    /\ file_index' = file_index + 1
    /\ pc' = "scan"
    /\ Assign([Fresh EXCEPT !.counts = counts])
    /\ summary' = <<>> /\ table' = <<>> /\ read' = <<>>
    /\ processed_entries' = 0
    /\ UNCHANGED <<top, start_date, end_date, nargs>>

\* lines 50-56: the next path of args; the counters and counts start afresh
BeginFile ==
    /\ pc \in {"next", "reported"}
    /\ file_index < nargs
    /\ file_index' = file_index + 1
    /\ pc' = "scan"
    /\ Assign(Fresh)
    /\ summary' = <<>> /\ table' = <<>> /\ read' = <<>>
    /\ processed_entries' = 0
    /\ UNCHANGED <<top, start_date, end_date, nargs>>

\* lines 57-81 with the exception of a failing line ending the run
ScanLineAborting ==
    /\ pc = "scan"
    /\ Len(read) < MaxLines
    /\ \E l \in Lines :
        /\ Assign(Body(Locals, l))
        /\ read' = Append(read, [line |-> l, n |-> 1])
        /\ processed_entries' = processed_entries + EntriesCounted(Locals, l, 1)
        /\ pc' = IF Body(Locals, l).num_failed > num_failed THEN "done" ELSE pc
    /\ UNCHANGED <<top, start_date, end_date, nargs, file_index, summary, table>>

\* lines 57-81: the file yields one more line
ScanLine ==
    /\ pc = "scan"
    /\ Len(read) < MaxLines
    /\ \E l \in Lines :
        /\ Assign(Body(Locals, l))
        /\ read' = Append(read, [line |-> l, n |-> 1])
        /\ processed_entries' = processed_entries + EntriesCounted(Locals, l, 1)
    /\ UNCHANGED <<top, start_date, end_date, nargs, file_index, pc, summary, table>>

\* lines 57-81: the file yields RunLen consecutive tweets without entities
ScanRun ==
    /\ pc = "scan"
    /\ Len(read) < MaxLines
    /\ Assign(Repeat(Locals, PlainTweet, RunLen))
    /\ read' = Append(read, [line |-> PlainTweet, n |-> RunLen])
    /\ processed_entries' = processed_entries + EntriesCounted(Locals, PlainTweet, RunLen)
    /\ UNCHANGED <<top, start_date, end_date, nargs, file_index, pc, summary, table>>

\* lines 82-95: the file is exhausted; the summary and the table are logged
Report ==
    /\ pc = "scan"
    /\ summary' = Summary(Locals, top)
    /\ table' = TableRows(SortDesc(counts, Len(counts)), top)
    /\ pc' = "reported"
    /\ UNCHANGED <<top, start_date, end_date, nargs, file_index, num_tweets, num_failed,
                   line_number, has_hashtags, counts, progress, read, processed_entries>>

\* line 50: args is exhausted and main returns
Finish ==
    /\ pc = "reported"
    /\ file_index = nargs
    /\ pc' = "done"
    /\ UNCHANGED <<top, start_date, end_date, nargs, file_index, num_tweets, num_failed,
                   line_number, has_hashtags, counts, progress, summary, table, read,
                   processed_entries>>

Next == BeginFile \/ ScanLine \/ ScanRun \/ Report \/ Finish

Spec == Init /\ [][Next]_vars

\* every file is finite and nothing blocks: the run goes on until main returns
FairSpec == Spec /\ WF_vars(Next)

TypeOK ==
    /\ pc \in {"next", "scan", "reported", "done"}
    /\ nargs \in 1..MaxFiles /\ file_index \in 0..nargs
    /\ num_tweets >= 0 /\ num_failed >= 0 /\ line_number >= 0 /\ has_hashtags >= 0

\* ------------------------------------------------------------------ claims

\* a step that reads one more line (or run of lines) of the current file
ScanStep == pc = "scan" /\ Len(read') = Len(read) + 1

\* the line read by a ScanStep, and the number of its copies
LastLine == read'[Len(read')].line

LastN == read'[Len(read')].n

DayOf(datetime) == datetime \div 86400

RECURSIVE SumCounts(_, _)
SumCounts(cs, i) == IF i = 0 THEN 0 ELSE cs[i][2] + SumCounts(cs, i - 1)

RECURSIVE NonBlank(_, _)
NonBlank(items, i) ==
    IF i = 0 THEN 0
    ELSE (IF items[i].line.json = "blank" THEN 0 ELSE items[i].n) + NonBlank(items, i - 1)

\* the counters and counts of a scan of the given lines that starts afresh
RECURSIVE ScanOf(_, _)
ScanOf(items, i) ==
    IF i = 0 THEN Fresh
    ELSE IF items[i].n = 1 THEN Body(ScanOf(items, i - 1), items[i].line)
    ELSE Repeat(ScanOf(items, i - 1), items[i].line, items[i].n)

\* C1: a step whose line raises a per-line error adds exactly 1 to num_failed
\* and to line_number and leaves num_tweets and counts as they were.
C1_FailedLineLeavesCounts ==
    [][(ScanStep /\ num_failed' > num_failed) =>
          /\ num_failed' = num_failed + 1
          /\ line_number' = line_number + 1
          /\ num_tweets' = num_tweets
          /\ counts' = counts]_vars

\* C2: a record whose created_at parses and whose day is before the day of
\* start_date or after the day of end_date changes nothing but line_number;
\* with neither date given every non-blank line is counted or fails.
C2_DateFilter ==
    [][(ScanStep /\ LastLine.json = "object" /\ "created_at" \in LastLine.keys
        /\ parse_twitter_date(LastLine.created_at) # ValueError) =>
          LET sdate == parse_twitter_date(LastLine.created_at)
          IN  /\ (\/ (start_date # None /\ DayOf(sdate) < DayOf(start_date))
                  \/ (end_date # None /\ DayOf(sdate) > DayOf(end_date))) =>
                    /\ counts' = counts
                    /\ has_hashtags' = has_hashtags
                    /\ num_tweets' = num_tweets
                    /\ num_failed' = num_failed
                    /\ line_number' = line_number + LastN
              /\ (start_date = None /\ end_date = None) =>
                    (num_tweets' - num_tweets) + (num_failed' - num_failed)
                        = line_number' - line_number]_vars

C2_Witness ==
    /\ pc = "scan" /\ Len(read) = 1 /\ read[1].line.json = "object"
    /\ start_date # None /\ end_date = None
    /\ parse_twitter_date(read[1].line.created_at) # ValueError
    /\ parse_twitter_date(read[1].line.created_at) < start_date
    /\ line_number = 1 /\ num_tweets = 0 /\ num_failed = 0 /\ counts = <<>>

\* C3: a record that raises nothing and whose created_at falls on the day of
\* end_date (and not before start_date), or on the day of start_date (and not
\* after end_date), is counted in num_tweets.
C3_BoundsInclusive ==
    [][(ScanStep /\ LastLine.json = "object" /\ "created_at" \in LastLine.keys
        /\ parse_twitter_date(LastLine.created_at) # ValueError
        /\ num_failed' = num_failed) =>
          LET day == DayOf(parse_twitter_date(LastLine.created_at))
          IN  (\/ /\ end_date # None /\ day = DayOf(end_date)
                  /\ (start_date = None \/ day >= DayOf(start_date))
               \/ /\ start_date # None /\ day = DayOf(start_date)
                  /\ (end_date = None \/ day <= DayOf(end_date))) =>
                num_tweets' = num_tweets + LastN]_vars

\* C4: the values of counts add up to the number of hashtag entries of the
\* records counted in num_tweets.
C4_SumIsProcessedEntries == SumCounts(counts, Len(counts)) = processed_entries

ClaimKey(text) == <<"#">> \o lower(strip(text))

EntriesWithKey(tags, key) ==
    Cardinality({i \in 1..Len(tags) : "text" \in tags[i].keys /\ ClaimKey(tags[i].text) = key})

KeysOf(cs) == {cs[i][1] : i \in 1..Len(cs)}

\* C6: every key of counts is "#" followed by a trimmed lowercase text, no two
\* keys differ only in case or surrounding whitespace, a step adds to a key
\* only for entries of the line whose lowercase(trim(text)) gives that key,
\* and a counted record adds to each key the number of its entries giving it.
C6_KeysNormalised ==
    /\ [](/\ \A i \in 1..Len(counts) :
                /\ Head(counts[i][1]) = "#"
                /\ Tail(counts[i][1]) = lower(strip(Tail(counts[i][1])))
          /\ \A i, j \in 1..Len(counts) :
                lower(strip(Tail(counts[i][1]))) = lower(strip(Tail(counts[j][1]))) => i = j)
    /\ [][ScanStep =>
            \A key \in KeysOf(counts') :
                /\ CountOf(counts', key) - CountOf(counts, key)
                      <= LastN * EntriesWithKey(LastLine.entities.hashtags, key)
                /\ num_tweets' > num_tweets =>
                      CountOf(counts', key) - CountOf(counts, key)
                          = LastN * EntriesWithKey(LastLine.entities.hashtags, key)]_vars

C6_Witness ==
    /\ Len(read) = 2
    /\ read[1].line.entities.hashtags = <<Tag(<<"A">>)>>
    /\ read[2].line.entities.hashtags = <<Tag(<<" ", "a">>)>>
    /\ counts = << <<(<<"#", "a">>), 2>> >>

\* C7: every file starts from zero counters and empty counts, and what is
\* reported for it is what a scan of its own lines from that start gives.
C7_PerFileState ==
    /\ (pc = "scan" /\ read = <<>>) => Locals = Fresh
    /\ pc = "reported" =>
          LET st == ScanOf(read, Len(read))
          IN  /\ summary = Summary(st, top)
              /\ table = TableRows(SortDesc(st.counts, Len(st.counts)), top)
              /\ Locals = st

C7_Witness ==
    /\ pc = "reported" /\ file_index = 2
    /\ counts # <<>> /\ table # <<>> /\ num_failed > 0

\* C8: a failing line leaves the scan going and the earlier counts in place,
\* the line counter at the report is the number of non-blank lines, and after
\* a failure the file is still reported and the run reaches its end.
C8_FailureDoesNotAbort ==
    /\ [][(ScanStep /\ num_failed' > num_failed) =>
            /\ pc' = "scan"
            /\ \A key \in KeysOf(counts) : CountOf(counts', key) >= CountOf(counts, key)]_vars
    /\ [](pc = "reported" => line_number = NonBlank(read, Len(read)))
    /\ (pc = "scan" /\ num_failed > 0)
          ~> (pc = "reported" /\ summary # <<>> /\ num_failed > 0)
    /\ <>(pc = "done" /\ file_index = nargs)

C8_Witness ==
    /\ pc = "reported"
    /\ Len(read) = 2
    /\ read[1].line.json = "malformed"
    /\ num_failed = 1 /\ num_tweets = 1 /\ line_number = 2 /\ counts # <<>>

\* C9: the number of progress notices is the number of multiples of 50,000
\* the line counter has reached.
C9_NoticeEvery50000 == progress = line_number \div ProgressEvery

\* C10: has_hashtags never exceeds num_tweets, and counts is non-empty only
\* if both are at least 1.
C10_HashtagsWithinTweets ==
    /\ has_hashtags <= num_tweets
    /\ counts # <<>> => (has_hashtags >= 1 /\ num_tweets >= 1)

====
